---- MODULE Spec2Model ----
(***************************************************************************)
(* HDInsight monitoring: the custom pollers (DisableAzureMonitorPoller,    *)
(* DisableMonitoringPoller), the generic poller driver that runs them      *)
(* (pollers.Poller.PollUntilDone) and the disable operations of            *)
(* common_hdinsight.go that trigger the change and then wait for it.       *)
(***************************************************************************)
EXTENDS Integers, Sequences, FiniteSets, TLC

\* ------------------------------------------------------------------ bounds
MaxPolls == 4        \* polls one PollUntilDone call may issue in the model
MaxAllowance == 2    \* largest allowance of consecutive transport failures

\* --------------------------------------------------------------- constants
PollIntervalInMinutes == 10 * 60   \* 10 * time.Minute, in seconds
PollIntervalSeconds == 10      \* PollInterval: 10 * time.Second
InitialIntervalSeconds == 10   \* pollers.NewPoller(pollType, 10*time.Second, ..)

Nil == "nil"

PollerTypes == {"DisableAzureMonitor", "DisableMonitoring"}

\* What the service holds for the cluster: whether the status query fails,
\* and the body it would answer with (no model, a model without the flag, or
\* a model whose ClusterMonitoringEnabled is true / false).
Bodies == {"modelNil", "flagNil", "true", "false"}
RemoteStates == [failing : BOOLEAN, body : Bodies]

VARIABLES
    pollType,     \* which custom poller the operation constructed
    allowance,    \* tolerated consecutive transport failures of the driver
    remote,       \* state of the remote resource
    changed,      \* the remote resource changed since the last completed poll
    ctxErr,       \* ctx.Err(): "none", "Canceled" or "DeadlineExceeded"
    cancelPc,     \* the driver's position when the context ended
    pc,           \* position of the operation / driver
    state,        \* driver state: None, Polling, Succeeded, Failed, Cancelled
    failures,     \* consecutive transport failures
    polls,        \* polls issued
    hist,         \* one entry per completed poll: the reply and Poll's outcome
    waits,        \* the intervals slept after InProgress results, in order
    interval,     \* the driver's current poll interval
    result,       \* what PollUntilDone returned
    returns,      \* how many times PollUntilDone returned
    opResult,     \* what the enclosing disable operation returned
    abortedErr,   \* the error Poll returned for a status query aborted in flight
    poller,       \* the poller's fields: client and clusterId
    requests,     \* the requests the operation has sent to the service, in order
    upd,          \* hdinsightClusterUpdate around the operation
    inst,         \* two operations running side by side
    service,      \* what the service holds for each cluster of those two
    df            \* the Data Factory linked service create / update

vars == <<pollType, allowance, remote, changed, ctxErr, cancelPc, pc,
          state, failures, polls, hist, waits, interval, result, returns,
          opResult, abortedErr, poller, requests, upd, inst, service, df>>

\* The variables of the models around the single operation.
outerVars == <<upd, inst, service, df>>

\* ----------------------------------------------------------- Poll Operation

\* client.GetMonitoringStatus(ctx, clusterId): the reply for a remote state.
GetMonitoringStatus(r) ==
    [err     |-> r.failing,
     model   |-> IF r.body = "modelNil" THEN Nil ELSE "present",
     enabled |-> CASE r.body = "true"  -> "true"
                   [] r.body = "false" -> "false"
                   [] OTHER            -> Nil]

\* The identifiers of the clusters, and the one this operation is called for.
ClusterIds == {"cluster1", "cluster2"}
OperationClusterId == "cluster1"
ExtensionsClient == "extensionsClient"

\* A constructor that keeps the cluster id of the first operation whatever id
\* it is given.
NewPollerForFirstCluster(client, clusterId) ==
    [client |-> client, clusterId |-> OperationClusterId]

\* NewDisableAzureMonitorPoller / NewDisableMonitoringPoller.
NewDisableMonitoringPoller(client, clusterId) ==
    [client |-> client, clusterId |-> clusterId]

\* Poll that sends the status query and then the disable request once more.
PollRequestsWithDisable(p) ==
    << [op |-> "GetMonitoringStatus", clusterId |-> p.clusterId, mutating |-> FALSE],
       [op |-> "DisableMonitoring", clusterId |-> p.clusterId, mutating |-> TRUE] >>

\* The requests one call of Poll sends: p.client.GetMonitoringStatus(ctx,
\* p.clusterId) and nothing else.
PollRequests(p) ==
    << [op |-> "GetMonitoringStatus", clusterId |-> p.clusterId, mutating |-> FALSE] >>

ErrorPrefix(p) ==
    IF p = "DisableAzureMonitor" THEN "retrieving Azure Monitor Status"
                                 ELSE "retrieving Monitoring Status"

NilResult == [Status |-> Nil, PollInterval |-> 0]
NilError == [prefix |-> Nil, detail |-> Nil]

\* Poll with the polarity of the flag inverted: done when the flag is true.
PollInverted(p, resp) ==
    IF resp.err
      THEN [res |-> NilResult,
            err |-> [prefix |-> ErrorPrefix(p), detail |-> "query"]]
    ELSE IF resp.model = Nil
      THEN [res |-> NilResult,
            err |-> [prefix |-> ErrorPrefix(p), detail |-> "model was nil"]]
    ELSE IF resp.enabled = Nil
      THEN [res |-> NilResult,
            err |-> [prefix |-> ErrorPrefix(p),
                     detail |-> "model.ClusterMonitoringEnabled was nil"]]
    ELSE [res |-> [Status       |-> IF resp.enabled = "true" THEN "Succeeded"
                                                             ELSE "InProgress",
                   PollInterval |-> PollIntervalSeconds],
          err |-> NilError]

\* Poll without the check of the flag for nil: a missing flag reads as "not
\* yet disabled".
PollNilFlagInProgress(p, resp) ==
    IF resp.err
      THEN [res |-> NilResult,
            err |-> [prefix |-> ErrorPrefix(p), detail |-> "query"]]
    ELSE IF resp.model = Nil
      THEN [res |-> NilResult,
            err |-> [prefix |-> ErrorPrefix(p), detail |-> "model was nil"]]
    ELSE [res |-> [Status       |-> IF resp.enabled = "false" THEN "Succeeded"
                                                              ELSE "InProgress",
                   PollInterval |-> PollIntervalSeconds],
          err |-> NilError]

\* Poll with the error of the status query dropped (resp, _ := ...): the
\* reply's body is classified whether or not the query failed.
PollIgnoresQueryError(p, resp) ==
    IF resp.model = Nil
      THEN [res |-> NilResult,
            err |-> [prefix |-> ErrorPrefix(p), detail |-> "model was nil"]]
    ELSE IF resp.enabled = Nil
      THEN [res |-> NilResult,
            err |-> [prefix |-> ErrorPrefix(p),
                     detail |-> "model.ClusterMonitoringEnabled was nil"]]
    ELSE [res |-> [Status       |-> IF resp.enabled = "false" THEN "Succeeded"
                                                              ELSE "InProgress",
                   PollInterval |-> PollIntervalSeconds],
          err |-> NilError]

\* Poll with the checks in another order: the model before the query's error.
PollChecksModelFirst(p, resp) ==
    IF resp.model = Nil
      THEN [res |-> NilResult,
            err |-> [prefix |-> ErrorPrefix(p), detail |-> "model was nil"]]
    ELSE IF resp.err
      THEN [res |-> NilResult,
            err |-> [prefix |-> ErrorPrefix(p), detail |-> "query"]]
    ELSE IF resp.enabled = Nil
      THEN [res |-> NilResult,
            err |-> [prefix |-> ErrorPrefix(p),
                     detail |-> "model.ClusterMonitoringEnabled was nil"]]
    ELSE [res |-> [Status       |-> IF resp.enabled = "false" THEN "Succeeded"
                                                              ELSE "InProgress",
                   PollInterval |-> PollIntervalSeconds],
          err |-> NilError]

\* (p *DisableAzureMonitorPoller) Poll / (p *DisableMonitoringPoller) Poll,
\* applied to the reply of the status query: (*PollResult, error).
Poll(p, resp) ==
    IF resp.err
      THEN [res |-> NilResult,
            err |-> [prefix |-> ErrorPrefix(p), detail |-> "query"]]
    ELSE IF resp.model = Nil
      THEN [res |-> NilResult,
            err |-> [prefix |-> ErrorPrefix(p), detail |-> "model was nil"]]
    ELSE IF resp.enabled = Nil
      THEN [res |-> NilResult,
            err |-> [prefix |-> ErrorPrefix(p),
                     detail |-> "model.ClusterMonitoringEnabled was nil"]]
    ELSE [res |-> [Status       |-> IF resp.enabled = "false" THEN "Succeeded"
                                                              ELSE "InProgress",
                   PollInterval |-> PollIntervalSeconds],
          err |-> NilError]

\* The pollers of the enable operations (NewEnableMonitoringPoller,
\* NewEnableAzureMonitorPoller): the same query and checks, done when the flag
\* is true.
EnablePollerTypes == {"EnableAzureMonitor", "EnableMonitoring"}
AllPollerTypes == PollerTypes \cup EnablePollerTypes

EnableErrorPrefix(p) ==
    IF p = "EnableAzureMonitor" THEN "retrieving Azure Monitor Status"
                                ELSE "retrieving Monitoring Status"

EnablePoll(p, resp) ==
    IF resp.err
      THEN [res |-> NilResult,
            err |-> [prefix |-> EnableErrorPrefix(p), detail |-> "query"]]
    ELSE IF resp.model = Nil
      THEN [res |-> NilResult,
            err |-> [prefix |-> EnableErrorPrefix(p), detail |-> "model was nil"]]
    ELSE IF resp.enabled = Nil
      THEN [res |-> NilResult,
            err |-> [prefix |-> EnableErrorPrefix(p),
                     detail |-> "model.ClusterMonitoringEnabled was nil"]]
    ELSE [res |-> [Status       |-> IF resp.enabled = "true" THEN "Succeeded"
                                                             ELSE "InProgress",
                   PollInterval |-> PollIntervalSeconds],
          err |-> NilError]

\* poller.Poll(ctx) through the pollers.PollerType interface.
PollOf(p, resp) ==
    IF p \in PollerTypes THEN Poll(p, resp) ELSE EnablePoll(p, resp)

\* The mutating request that starts the change: client.DisableMonitoring,
\* client.DisableAzureMonitor, client.EnableMonitoring, client.EnableAzureMonitor.
TriggerRequest(p, clusterId) ==
    [op |-> p, clusterId |-> clusterId, mutating |-> TRUE]

\* ------------------------------------------------------------ Poller Driver

\* The driver's error taxonomy: a failed status query is a transport failure
\* (QueryError), an error about a missing field a MalformedResponseError.
IsTransportFailure(e) == e.detail = "query"

Pending == [kind |-> "pending", wraps |-> NilError]
ReturnedNil == [kind |-> "nil", wraps |-> NilError]

Terminal == {"Succeeded", "Failed", "Cancelled"}
Waiting == {"sleeping", "backoff"}

\* The operation at its entry, for a poller of one of the given types.
MainInit(types) ==
    /\ pollType \in types
    /\ allowance \in 0..MaxAllowance
    /\ remote \in RemoteStates
    /\ changed = FALSE
    /\ ctxErr = "none"
    /\ cancelPc = "none"
    /\ pc = "trigger"
    /\ state = "None"
    /\ failures = 0
    /\ polls = 0
    /\ hist = <<>>
    /\ waits = <<>>
    /\ interval = 0
    /\ result = Pending
    /\ returns = 0
    /\ opResult = "pending"
    /\ abortedErr = NilError
    /\ poller = NewDisableMonitoringPoller(ExtensionsClient, OperationClusterId)
    /\ requests = <<>>

\* The models around the single operation, not in use.
UpdIdle == [pc |-> "none"]
NoInstances == <<>>
NoService == <<>>
DfIdle == [pc |-> "none"]

OuterIdle ==
    /\ upd = UpdIdle
    /\ inst = NoInstances
    /\ service = NoService
    /\ df = DfIdle

Init == MainInit(PollerTypes) /\ OuterIdle

\* Trigger that carries on to the polling when the trigger request failed.
TriggerIgnoresError ==
    /\ pc = "trigger"
    /\ \E ok \in BOOLEAN :
         /\ ctxErr # "none" => ~ok
         /\ pc' = "ready"
         /\ state' = "Polling"
         /\ interval' = InitialIntervalSeconds
         /\ opResult' = IF ok THEN opResult ELSE "TriggerError"
    /\ UNCHANGED <<pollType, allowance, remote, changed, ctxErr, cancelPc,
                   failures, polls, hist, waits, result, returns, abortedErr>>
    /\ requests' = Append(requests, TriggerRequest(pollType, OperationClusterId))
    /\ UNCHANGED poller
    /\ UNCHANGED outerVars

\* disableHDInsightMonitoring / disableHDInsightAzureMonitor up to the call of
\* PollUntilDone: the mutating request, then the poller's construction.
Trigger ==
    /\ pc = "trigger"
    /\ \E ok \in BOOLEAN :
         /\ ctxErr # "none" => ~ok
         /\ IF ok
              THEN /\ pc' = "ready"
                   /\ state' = "Polling"
                   /\ interval' = InitialIntervalSeconds
                   /\ UNCHANGED opResult
              ELSE /\ pc' = "returned"
                   /\ opResult' = "TriggerError"
                   /\ UNCHANGED <<state, interval>>
    /\ UNCHANGED <<pollType, allowance, remote, changed, ctxErr, cancelPc,
                   failures, polls, hist, waits, result, returns, abortedErr>>
    /\ requests' = Append(requests, TriggerRequest(pollType, OperationClusterId))
    /\ UNCHANGED poller
    /\ UNCHANGED outerVars

\* IssuePoll without the look at the context before the poll.
IssuePollIgnoresCtx ==
    /\ pc = "ready"
    /\ polls < MaxPolls
    /\ pc' = "inflight"
    /\ polls' = polls + 1
    /\ UNCHANGED <<pollType, allowance, remote, changed, ctxErr, cancelPc,
                   state, failures, hist, waits, interval, result, returns,
                   opResult, abortedErr>>
    /\ requests' = requests \o PollRequests(poller)
    /\ UNCHANGED poller
    /\ UNCHANGED outerVars

\* From Polling, the driver invokes the bound Poll Operation: the status query
\* is sent.
IssuePoll ==
    /\ pc = "ready"
    /\ ctxErr = "none"
    /\ polls < MaxPolls
    /\ pc' = "inflight"
    /\ polls' = polls + 1
    /\ UNCHANGED <<pollType, allowance, remote, changed, ctxErr, cancelPc,
                   state, failures, hist, waits, interval, result, returns,
                   opResult, abortedErr>>
    /\ requests' = requests \o PollRequests(poller)
    /\ UNCHANGED poller
    /\ UNCHANGED outerVars

\* if err := poller.PollUntilDone(ctx); err != nil { return fmt.Errorf(..) }
\* return nil
OperationResult(r) == IF r # ReturnedNil THEN "PollError" ELSE "nil"

\* Return without leaving the loop: the terminal state is recorded and the
\* driver polls on.
ReturnKeepsPolling(st, r) ==
    /\ state' = st
    /\ result' = r
    /\ pc' = "ready"
    /\ returns' = returns + 1
    /\ opResult' = OperationResult(r)

\* PollUntilDone reaches the terminal state st and returns r to the operation,
\* which returns in turn.
Return(st, r) ==
    /\ state' = st
    /\ result' = r
    /\ pc' = "returned"
    /\ returns' = returns + 1
    /\ opResult' = OperationResult(r)

\* NextFailures without the reset: the counter counts all transport failures.
NextFailuresNoReset(out, n) ==
    IF out.err # NilError /\ IsTransportFailure(out.err) THEN n + 1 ELSE n

\* The consecutive-failure counter after a poll with outcome out: a transport
\* failure increments it, a successful poll resets it to zero.
NextFailures(out, n) ==
    IF out.err = NilError THEN 0
    ELSE IF IsTransportFailure(out.err) THEN n + 1
    ELSE n

\* The interval to sleep after an InProgress result: the one the result
\* suggests, or the driver's current interval if it suggests none.
SleepInterval(res, current) ==
    IF res.PollInterval > 0 THEN res.PollInterval ELSE current

\* Poll that also turns monitoring off when it finds it on.
PollDisablesMonitoring ==
    remote' = [remote EXCEPT !.body = IF @ = "true" THEN "false" ELSE @]

\* Poll only reads: GetMonitoringStatus is the one request it issues, and it
\* leaves the remote resource as it is.
PollFrame == remote' = remote

\* The status query answers, Poll classifies the reply and the driver acts on
\* Poll's outcome.
PollReturns ==
    /\ pc = "inflight"
    /\ ctxErr = "none"
    /\ LET resp == GetMonitoringStatus(remote)
           out  == PollOf(pollType, resp)
       IN  /\ hist' = Append(hist, [reply |-> resp, out |-> out])
           /\ changed' = FALSE
           /\ failures' = NextFailures(out, failures)
           /\ IF out.err # NilError
                THEN IF IsTransportFailure(out.err)
                       THEN /\ IF failures' > allowance
                                 THEN Return("Failed",
                                             [kind  |-> "TimeoutExceededError",
                                              wraps |-> out.err])
                                 ELSE /\ pc' = "backoff"
                                      /\ UNCHANGED <<state, result, returns,
                                                     opResult>>
                            /\ UNCHANGED interval
                       ELSE /\ Return("Failed",
                                      [kind  |-> "MalformedResponseError",
                                       wraps |-> out.err])
                            /\ UNCHANGED interval
                ELSE /\ CASE out.res.Status = "Succeeded" ->
                               /\ Return("Succeeded", ReturnedNil)
                               /\ UNCHANGED interval
                          [] out.res.Status = "InProgress" ->
                               /\ pc' = "sleeping"
                               /\ interval' = SleepInterval(out.res, interval)
                               /\ UNCHANGED <<state, result, returns, opResult>>
                          [] OTHER ->
                               /\ Return("Failed",
                                         [kind  |-> "OperationFailedError",
                                          wraps |-> NilError])
                               /\ UNCHANGED interval
    /\ PollFrame
    /\ UNCHANGED <<pollType, allowance, ctxErr, cancelPc, polls, waits,
                   abortedErr>>
    /\ UNCHANGED <<poller, requests>>
    /\ UNCHANGED outerVars

\* The sleep after an InProgress result, or the backoff after a tolerated
\* transport failure, has elapsed.
WakeUp ==
    /\ pc \in Waiting
    /\ ctxErr = "none"
    /\ pc' = "ready"
    /\ waits' = IF pc = "sleeping" THEN Append(waits, interval) ELSE waits
    /\ UNCHANGED <<pollType, allowance, remote, changed, ctxErr, cancelPc,
                   state, failures, polls, hist, interval, result, returns,
                   opResult, abortedErr>>
    /\ UNCHANGED <<poller, requests>>
    /\ UNCHANGED outerVars

\* The reply of a status query that the context aborted: an error, no model.
AbortedReply == [err |-> TRUE, model |-> Nil, enabled |-> Nil]

\* ObserveCancel with the aborted query's error handled like any other error
\* of Poll: counted against the allowance and retried or reported.
ObserveCancelClassifiesAbort ==
    /\ pc \in Waiting \cup {"ready", "inflight"}
    /\ ctxErr # "none"
    /\ IF pc = "inflight"
         THEN LET out == PollOf(pollType, AbortedReply)
              IN  /\ abortedErr' = out.err
                  /\ failures' = NextFailures(out, failures)
                  /\ IF failures' > allowance
                       THEN Return("Failed", [kind  |-> "TimeoutExceededError",
                                              wraps |-> out.err])
                       ELSE /\ pc' = "backoff"
                            /\ UNCHANGED <<state, result, returns, opResult>>
         ELSE /\ Return("Cancelled",
                        [kind |-> "CancellationError", wraps |-> NilError])
              /\ UNCHANGED <<abortedErr, failures>>
    /\ UNCHANGED <<pollType, allowance, remote, changed, ctxErr, cancelPc,
                   polls, hist, waits, interval>>
    /\ UNCHANGED <<poller, requests>>
    /\ UNCHANGED outerVars

\* The driver observes that the context has ended: during a wait, immediately
\* before the next poll, or while the status query is in flight. In flight the
\* query is aborted, Poll returns its error, and the driver, having seen the
\* context end, reports the cancellation and not that error.
ObserveCancel ==
    /\ pc \in Waiting \cup {"ready", "inflight"}
    /\ ctxErr # "none"
    /\ abortedErr' = IF pc = "inflight" THEN PollOf(pollType, AbortedReply).err
                                        ELSE abortedErr
    /\ Return("Cancelled", [kind |-> "CancellationError", wraps |-> NilError])
    /\ UNCHANGED <<pollType, allowance, remote, changed, ctxErr, cancelPc,
                   failures, polls, hist, waits, interval>>
    /\ UNCHANGED <<poller, requests>>
    /\ UNCHANGED outerVars

\* The caller's context is cancelled or passes its deadline
\* (ctx, cancel := timeouts.ForUpdate(...); defer cancel()).
CtxDone ==
    /\ ctxErr = "none"
    /\ \E e \in {"Canceled", "DeadlineExceeded"} : ctxErr' = e
    /\ cancelPc' = pc
    /\ UNCHANGED <<pollType, allowance, remote, changed, pc, state, failures,
                   polls, hist, waits, interval, result, returns, opResult,
                   abortedErr>>
    /\ UNCHANGED <<poller, requests>>
    /\ UNCHANGED outerVars

\* The service changes what it holds for the cluster.
RemoteChange ==
    /\ pc # "returned"
    /\ \E r \in RemoteStates \ {remote} : remote' = r
    /\ changed' = TRUE
    /\ UNCHANGED <<pollType, allowance, ctxErr, cancelPc, pc, state, failures,
                   polls, hist, waits, interval, result, returns, opResult,
                   abortedErr>>
    /\ UNCHANGED <<poller, requests>>
    /\ UNCHANGED outerVars

Next ==
    \/ Trigger
    \/ IssuePoll
    \/ PollReturns
    \/ WakeUp
    \/ ObserveCancel
    \/ CtxDone
    \/ RemoteChange

Spec == Init /\ [][Next]_vars

\* Poll invoked on its own, outside PollUntilDone: one status query, classified.
DirectPoll ==
    /\ pc = "trigger"
    /\ polls < MaxPolls
    /\ LET resp == GetMonitoringStatus(remote)
       IN  hist' = Append(hist, [reply |-> resp, out |-> PollOf(pollType, resp)])
    /\ polls' = polls + 1
    /\ changed' = FALSE
    /\ PollFrame
    /\ UNCHANGED <<pollType, allowance, ctxErr, cancelPc, pc, state, failures,
                   waits, interval, result, returns, opResult, abortedErr>>
    /\ requests' = requests \o PollRequests(poller)
    /\ UNCHANGED poller
    /\ UNCHANGED outerVars

\* Every enable / disable operation: the pollers of all four.
InitAll == MainInit(AllPollerTypes) /\ OuterIdle

SpecAll == InitAll /\ [][Next]_vars

NextPoll ==
    \/ DirectPoll
    \/ RemoteChange

\* Poll as a function under test: any sequence of calls and remote changes
\* (the driver's allowance plays no part in it).
InitPoll == Init /\ allowance = 0

SpecPoll == InitPoll /\ [][NextPoll]_vars

TypeOK ==
    /\ pollType \in AllPollerTypes
    /\ allowance \in 0..MaxAllowance
    /\ remote \in RemoteStates
    /\ changed \in BOOLEAN
    /\ ctxErr \in {"none", "Canceled", "DeadlineExceeded"}
    /\ pc \in {"trigger", "ready", "inflight", "sleeping", "backoff", "returned"}
    /\ state \in {"None", "Polling"} \cup Terminal
    /\ failures \in Nat
    /\ polls \in Nat
    /\ returns \in Nat

\* ------------------------------------------------------------------ claims

Statuses(h) == [i \in 1..Len(h) |-> h[i].out.res.Status]
ReadsTrue(e) == ~e.reply.err /\ e.reply.enabled = "true"
ReadsFalse(e) == ~e.reply.err /\ e.reply.enabled = "false"
ReadsMalformed(e) ==
    ~e.reply.err /\ (e.reply.model = Nil \/ e.reply.enabled = Nil)
QueryFailed(e) == e.reply.err

ReturnedNilOnceAfter(n) ==
    /\ pc = "returned"
    /\ state = "Succeeded"
    /\ result = ReturnedNil
    /\ returns = 1
    /\ polls = n
    /\ opResult = "nil"

\* C1: if Poll reports InProgress on its first N invocations and Succeeded on
\* invocation N+1 (for the Disable pollers: the flag reads true N times, then
\* false), PollUntilDone returns nil exactly once, after exactly N+1 polls.
C1_InProgressThenSucceeded ==
    LET n == Len(hist) IN
    /\ ( /\ n >= 1
         /\ \A i \in 1..(n - 1) : hist[i].out.res.Status = "InProgress"
         /\ hist[n].out.res.Status = "Succeeded" )
       => ReturnedNilOnceAfter(n)
    /\ ( /\ n >= 1
         /\ \A i \in 1..(n - 1) : ReadsTrue(hist[i])
         /\ ReadsFalse(hist[n]) )
       => /\ Statuses(hist) = [i \in 1..n |-> IF i < n THEN "InProgress"
                                                       ELSE "Succeeded"]
          /\ ReturnedNilOnceAfter(n)

C1_Witness ==
    /\ Len(hist) = 3
    /\ ReadsTrue(hist[1]) /\ ReadsTrue(hist[2]) /\ ReadsFalse(hist[3])
    /\ result = ReturnedNil

\* C2: a first reply whose model or whose ClusterMonitoringEnabled is nil makes
\* PollUntilDone return a MalformedResponseError on that first poll: one poll,
\* nothing counted as a transport failure, no retry, whatever the allowance.
C2_MalformedFatalOnFirstPoll ==
    (Len(hist) >= 1 /\ ReadsMalformed(hist[1]))
        => /\ pc = "returned"
           /\ state = "Failed"
           /\ result.kind = "MalformedResponseError"
           /\ result.wraps = hist[1].out.err
           /\ returns = 1
           /\ polls = 1
           /\ Len(hist) = 1
           /\ failures = 0

C2_Witness ==
    /\ Len(hist) = 1
    /\ ReadsMalformed(hist[1])
    /\ hist[1].reply.model # Nil
    /\ allowance = MaxAllowance
    /\ result.kind = "MalformedResponseError"

\* C3: a context that ends while the driver waits between polls, or just
\* before the next poll, takes PollUntilDone to Cancelled with a
\* CancellationError, and no poll is issued once it has ended there or once
\* the driver is Cancelled.
C3_CancelledBetweenPolls ==
    /\ [](cancelPc \in Waiting \cup {"ready"}
            => /\ state \in {"Polling", "Cancelled"}
               /\ pc = "returned"
                    => /\ state = "Cancelled"
                       /\ result.kind = "CancellationError"
                       /\ returns = 1)
    /\ [][(cancelPc \in Waiting \cup {"ready"} \/ state = "Cancelled")
            => polls' = polls /\ hist' = hist]_vars

C3_Witness ==
    /\ cancelPc = "sleeping"
    /\ state = "Cancelled"
    /\ result.kind = "CancellationError"
    /\ polls >= 1

\* The number of polls at the end of h whose status query failed.
RECURSIVE TrailingFailures(_)
TrailingFailures(h) ==
    IF h = <<>> \/ ~QueryFailed(h[Len(h)]) THEN 0
    ELSE 1 + TrailingFailures(SubSeq(h, 1, Len(h) - 1))

\* The longest run of consecutive failed status queries in h.
RECURSIVE LongestFailureRun(_)
LongestFailureRun(h) ==
    IF h = <<>> THEN 0
    ELSE LET rest == LongestFailureRun(SubSeq(h, 1, Len(h) - 1))
             t    == TrailingFailures(h)
         IN  IF t > rest THEN t ELSE rest

TotalFailures(h) == Cardinality({i \in 1..Len(h) : QueryFailed(h[i])})

\* C4: with allowance K, K+1 consecutive failed status queries take
\* PollUntilDone to Failed with a TimeoutExceededError wrapping the last
\* transport error, on attempt K+1 of the run: not before it, and with no
\* attempt after it (when the first K+1 queries fail: after exactly K+1 polls).
C4_TimeoutAfterAllowancePlusOne ==
    LET n == Len(hist) IN
    /\ result.kind = "TimeoutExceededError"
         => /\ state = "Failed"
            /\ pc = "returned"
            /\ returns = 1
            /\ TrailingFailures(hist) = allowance + 1
            /\ result.wraps = hist[n].out.err
            /\ IsTransportFailure(result.wraps)
            /\ polls = n
    /\ TrailingFailures(hist) >= allowance + 1
         => result.kind = "TimeoutExceededError"
    /\ (n >= 1 /\ QueryFailed(hist[n]) /\ TrailingFailures(hist) <= allowance)
         => /\ state \in {"Polling", "Cancelled"}
            /\ result.kind \in {"pending", "CancellationError"}
    /\ (n >= allowance + 1 /\ \A i \in 1..(allowance + 1) : QueryFailed(hist[i]))
         => /\ polls = allowance + 1
            /\ result.kind = "TimeoutExceededError"

C4_Witness ==
    /\ allowance = 2
    /\ Len(hist) = 3
    /\ \A i \in 1..3 : QueryFailed(hist[i])
    /\ polls = 3
    /\ result.kind = "TimeoutExceededError"

\* C5: the failure counter counts consecutive transport failures only: a poll
\* that returns a PollResult resets it to zero, while Polling it stays within
\* 0..allowance, and a run with no more than `allowance` failures in a row
\* never ends with the allowance exhausted, however many failures it has.
C5_CounterIsConsecutive ==
    LET n == Len(hist) IN
    /\ state = "Polling" => failures \in 0..allowance
    /\ state \in {"Polling", "Cancelled"} => failures = TrailingFailures(hist)
    /\ (n >= 1 /\ hist[n].out.err = NilError) => failures = 0
    /\ LongestFailureRun(hist) <= allowance
         => ~(state = "Failed" /\ result.kind = "TimeoutExceededError")

C5_Witness ==
    /\ allowance >= 1
    /\ TotalFailures(hist) > allowance
    /\ LongestFailureRun(hist) <= allowance
    /\ failures = 0
    /\ state = "Succeeded"

ExpectedOutcome(e) ==
    IF e.reply.err
      THEN e.out.res = NilResult /\ e.out.err.detail = "query"
    ELSE IF e.reply.model = Nil
      THEN e.out.res = NilResult /\ e.out.err.detail = "model was nil"
    ELSE IF e.reply.enabled = Nil
      THEN /\ e.out.res = NilResult
           /\ e.out.err.detail = "model.ClusterMonitoringEnabled was nil"
    ELSE /\ e.out.err = NilError
         /\ e.out.res.Status = IF e.reply.enabled = "true" THEN "InProgress"
                                                           ELSE "Succeeded"

\* C7: Poll classifies every reply in this precedence: query error, nil model,
\* nil flag (each an error and no PollResult), flag true -> InProgress, flag
\* false -> Succeeded; nil is never InProgress and Failed is never produced.
C7_PollClassification ==
    \A i \in 1..Len(hist) :
        LET e == hist[i] IN
        /\ ExpectedOutcome(e)
        /\ (e.out.res = NilResult) # (e.out.err = NilError)
        /\ (e.reply.model = Nil \/ e.reply.enabled = Nil)
              => e.out.res.Status # "InProgress"
        /\ e.out.res.Status \in {Nil, "InProgress", "Succeeded"}

C7_Witness ==
    /\ Len(hist) = 3
    /\ hist[1].reply.err /\ hist[1].reply.model = Nil
    /\ hist[2].reply.err /\ hist[2].reply.enabled = "false"
    /\ ReadsMalformed(hist[3])

InProgressCount(h) ==
    Cardinality({i \in 1..Len(h) : h[i].out.res.Status = "InProgress"})

\* C8: after every InProgress result the driver waits that result's interval
\* (10 seconds) before the next poll and it does not wait after Succeeded:
\* flag readings true, true, false give three polls, two waits of 10 seconds
\* and a nil return.
C8_WaitsBetweenPolls ==
    /\ Len(waits) <= InProgressCount(hist)
    /\ \A k \in 1..Len(hist) :
          (hist[k].out.res.Status = "InProgress" /\ polls > k)
            => LET j == InProgressCount(SubSeq(hist, 1, k))
               IN  /\ Len(waits) >= j
                   /\ waits[j] = hist[k].out.res.PollInterval
    /\ \A j \in 1..Len(waits) : waits[j] = 10
    /\ ( /\ Len(hist) = 3
         /\ ReadsTrue(hist[1]) /\ ReadsTrue(hist[2]) /\ ReadsFalse(hist[3]) )
       => /\ polls = 3
          /\ waits = <<10, 10>>
          /\ result = ReturnedNil
          /\ pc = "returned"

C8_Witness ==
    /\ Len(hist) = 3
    /\ ReadsTrue(hist[1]) /\ ReadsTrue(hist[2]) /\ ReadsFalse(hist[3])
    /\ waits = <<10, 10>>
    /\ state = "Succeeded"

driverVars == <<state, pc, polls, hist, failures, waits, interval, result,
                returns, opResult>>

\* C9: Succeeded, Failed and Cancelled are terminal: a poll result with a
\* terminal status ends the run, no poll is issued and nothing of the driver
\* changes afterwards, and PollUntilDone has returned exactly when the driver
\* is in a terminal state.
C9_TerminalIsFinal ==
    /\ [](/\ state \in Terminal <=> returns >= 1
          /\ state \in Terminal => pc = "returned" /\ returns = 1
          /\ state = "Polling" => result = Pending /\ pc # "returned"
          /\ \A i \in 1..Len(hist) :
                hist[i].out.res.Status \in {"Succeeded", "Failed"}
                  => /\ i = Len(hist)
                     /\ state = hist[i].out.res.Status
                     /\ polls = i)
    /\ [][(state \in Terminal) => driverVars' = driverVars]_vars

C9_Witness ==
    /\ state = "Succeeded"
    /\ ctxErr = "Canceled"
    /\ cancelPc = "returned"
    /\ Len(hist) = 2

\* C10: Poll is idempotent with respect to the resource: a call of Poll made
\* with no change of the remote state since the previous call has the same
\* outcome (the same status, or the same error) as that call.
C10_PollIdempotent ==
    [][(Len(hist') = Len(hist) + 1 /\ Len(hist) >= 1 /\ ~changed)
         => hist'[Len(hist')].out = hist[Len(hist)].out]_vars

C10_Witness ==
    /\ Len(hist) = 3
    /\ ~changed
    /\ hist[1].reply.model = Nil /\ ~hist[1].reply.err
    /\ hist[2] = hist[1]
    /\ hist[3] = hist[1]

\* The status query of the poller constructed for the operation.
StatusQuery(clusterId) ==
    [op |-> "GetMonitoringStatus", clusterId |-> clusterId, mutating |-> FALSE]

\* C11: every invocation of Poll issues exactly one request, the read-only
\* status query for the cluster id the poller was constructed with, and leaves
\* the remote resource and the poller's own fields (client, clusterId) as they
\* were.
C11_PollFrameEffect ==
    [][polls' = polls + 1
         => /\ requests' = Append(requests, StatusQuery(OperationClusterId))
            /\ poller = [client |-> ExtensionsClient,
                         clusterId |-> OperationClusterId]
            /\ poller' = poller
            /\ remote' = remote]_vars

C11_Witness ==
    /\ polls = 3
    /\ requests = [i \in 1..3 |-> StatusQuery(poller.clusterId)]
    /\ poller.clusterId = OperationClusterId
    /\ changed

MutatingRequests(reqs) == {i \in 1..Len(reqs) : reqs[i].mutating}

\* C13: in each enable / disable monitoring operation the mutating trigger
\* request is issued exactly once and before the first Poll; if it fails the
\* operation returns that error and Poll is never invoked; once polling has
\* begun no further mutating request is issued.
C13_TriggerOnceBeforePolling ==
    /\ pc = "trigger" => requests = <<>> /\ polls = 0
    /\ pc # "trigger" =>
         /\ Len(requests) = 1 + polls
         /\ requests[1] = TriggerRequest(pollType, OperationClusterId)
         /\ MutatingRequests(requests) = {1}
         /\ \A i \in 2..Len(requests) :
              requests[i] = StatusQuery(OperationClusterId)
    /\ opResult = "TriggerError" =>
         /\ pc = "returned"
         /\ polls = 0
         /\ hist = <<>>
         /\ result = Pending
         /\ state = "None"
    /\ polls > 0 => state # "None" /\ opResult # "TriggerError"

C13_Witness ==
    /\ pollType = "EnableMonitoring"
    /\ opResult = "nil"
    /\ polls = 3
    /\ Len(requests) = 4
    /\ requests[1].mutating
    /\ requests[1].op = "EnableMonitoring"

C13_WitnessTriggerFailed ==
    /\ pollType = "DisableAzureMonitor"
    /\ opResult = "TriggerError"
    /\ requests = <<TriggerRequest("DisableAzureMonitor", OperationClusterId)>>
    /\ ctxErr = "none"

\* ------------------------------------------------- Operations side by side
\* One operation with its PollUntilDone call as a value: what the operation
\* was called for (clusterId, pollType), the poller it constructed, and the
\* driver's state. Two operations run side by side are two such values; the
\* service is all they have in common.
MaxPairPolls == 2    \* polls each of two side-by-side operations may issue

singleVars == <<pollType, allowance, remote, changed, ctxErr, cancelPc, pc,
                state, failures, polls, hist, waits, interval, result, returns,
                opResult, abortedErr, poller, requests>>

NewInstance(clusterId, type, k) ==
    [clusterId |-> clusterId,
     pollType  |-> type,
     poller    |-> NewDisableMonitoringPoller(ExtensionsClient, clusterId),
     allowance |-> k,
     ctxErr    |-> "none",
     pc        |-> "trigger",
     state     |-> "None",
     failures  |-> 0,
     polls     |-> 0,
     result    |-> Pending,
     opResult  |-> "pending"]

DrvReturn(d, st, r) ==
    [d EXCEPT !.state = st, !.result = r, !.pc = "returned",
              !.opResult = OperationResult(r)]

DrvTrigger(d, ok) ==
    IF ok THEN [d EXCEPT !.pc = "ready", !.state = "Polling"]
          ELSE [d EXCEPT !.pc = "returned", !.opResult = "TriggerError"]

DrvIssuePoll(d) == [d EXCEPT !.pc = "inflight", !.polls = @ + 1]

\* The driver's step on the outcome of Poll, for the service state r of the
\* cluster the poller asks about.
DrvPollReturns(d, r) ==
    LET out == PollOf(d.pollType, GetMonitoringStatus(r))
        d1  == [d EXCEPT !.failures = NextFailures(out, d.failures)]
    IN  IF out.err # NilError
          THEN IF IsTransportFailure(out.err)
                 THEN IF d1.failures > d.allowance
                        THEN DrvReturn(d1, "Failed",
                                       [kind  |-> "TimeoutExceededError",
                                        wraps |-> out.err])
                        ELSE [d1 EXCEPT !.pc = "backoff"]
                 ELSE DrvReturn(d1, "Failed",
                                [kind  |-> "MalformedResponseError",
                                 wraps |-> out.err])
        ELSE IF out.res.Status = "Succeeded"
          THEN DrvReturn(d1, "Succeeded", ReturnedNil)
        ELSE IF out.res.Status = "InProgress"
          THEN [d1 EXCEPT !.pc = "sleeping"]
        ELSE DrvReturn(d1, "Failed",
                       [kind |-> "OperationFailedError", wraps |-> NilError])

DrvWakeUp(d) == [d EXCEPT !.pc = "ready"]

DrvObserveCancel(d) ==
    DrvReturn(d, "Cancelled",
              [kind |-> "CancellationError", wraps |-> NilError])

DrvCtxDone(d, e) == [d EXCEPT !.ctxErr = e]

CanTrigger(d, ok) == d.pc = "trigger" /\ (d.ctxErr # "none" => ~ok)
CanIssuePoll(d, n) == d.pc = "ready" /\ d.ctxErr = "none" /\ d.polls < n
CanPollReturn(d) == d.pc = "inflight" /\ d.ctxErr = "none"
CanWakeUp(d) == d.pc \in Waiting /\ d.ctxErr = "none"
CanObserveCancel(d) ==
    d.pc \in Waiting \cup {"ready", "inflight"} /\ d.ctxErr # "none"
CanCtxDone(d) == d.ctxErr = "none"

\* All the steps the operation d can take on its own when the service holds r
\* for its cluster and at most n polls are issued.
InstSteps(d, r, n) ==
    {DrvTrigger(d, ok) : ok \in {b \in BOOLEAN : CanTrigger(d, b)}}
    \cup (IF CanIssuePoll(d, n) THEN {DrvIssuePoll(d)} ELSE {})
    \cup (IF CanPollReturn(d) THEN {DrvPollReturns(d, r)} ELSE {})
    \cup (IF CanWakeUp(d) THEN {DrvWakeUp(d)} ELSE {})
    \cup (IF CanObserveCancel(d) THEN {DrvObserveCancel(d)} ELSE {})
    \cup (IF CanCtxDone(d)
            THEN {DrvCtxDone(d, e) : e \in {"Canceled", "DeadlineExceeded"}}
            ELSE {})

\* The single operation of Spec seen as such a value.
InstView ==
    [clusterId |-> OperationClusterId,
     pollType  |-> pollType,
     poller    |-> poller,
     allowance |-> allowance,
     ctxErr    |-> ctxErr,
     pc        |-> pc,
     state     |-> state,
     failures  |-> failures,
     polls     |-> polls,
     result    |-> result,
     opResult  |-> opResult]

\* The two presentations of the operation agree: every step of Spec is a step
\* of the value, or leaves it as it is.
DriverMatchesInstance ==
    [][InstView' = InstView \/ InstView' \in InstSteps(InstView, remote, MaxPolls)]_vars

\* ... and every step of the value is a step Spec can take.
InstanceMatchesDriver ==
    \A d2 \in InstSteps(InstView, remote, MaxPolls) :
        ENABLED (Next /\ InstView' = d2)

\* The single operation at rest, while other parts of the model run.
SingleIdle ==
    /\ MainInit({"DisableMonitoring"})
    /\ allowance = 0
    /\ remote = [failing |-> FALSE, body |-> "false"]

Instances == {1, 2}
PairPollerTypes == <<"DisableMonitoring", "DisableAzureMonitor">>
PairClusterIds == <<"cluster1", "cluster2">>
PairRemoteStates ==
    {r \in RemoteStates : r.body \in {"true", "false"} /\ (r.failing => r.body = "true")}

\* Two operations for two clusters, both with the allowance the operations
\* pass to NewPoller.
InitPair ==
    /\ SingleIdle
    /\ upd = UpdIdle
    /\ df = DfIdle
    /\ \E k \in 0..MaxAllowance :
         inst = [i \in Instances |->
                   NewInstance(PairClusterIds[i], PairPollerTypes[i], k)]
    /\ service \in [ClusterIds -> PairRemoteStates]

PairFrame == UNCHANGED <<singleVars, upd, df>>

PairTrigger(i) ==
    /\ \E ok \in BOOLEAN :
         /\ CanTrigger(inst[i], ok)
         /\ inst' = [inst EXCEPT ![i] = DrvTrigger(@, ok)]
    /\ UNCHANGED service
    /\ PairFrame

PairIssuePoll(i) ==
    /\ CanIssuePoll(inst[i], MaxPairPolls)
    /\ inst' = [inst EXCEPT ![i] = DrvIssuePoll(@)]
    /\ UNCHANGED service
    /\ PairFrame

\* Poll asks the service about the cluster id held by the poller.
PairPollReturns(i) ==
    /\ CanPollReturn(inst[i])
    /\ inst' = [inst EXCEPT
                  ![i] = DrvPollReturns(@, service[@.poller.clusterId])]
    /\ UNCHANGED service
    /\ PairFrame

PairWakeUp(i) ==
    /\ CanWakeUp(inst[i])
    /\ inst' = [inst EXCEPT ![i] = DrvWakeUp(@)]
    /\ UNCHANGED service
    /\ PairFrame

PairObserveCancel(i) ==
    /\ CanObserveCancel(inst[i])
    /\ inst' = [inst EXCEPT ![i] = DrvObserveCancel(@)]
    /\ UNCHANGED service
    /\ PairFrame

PairCtxDone(i) ==
    /\ CanCtxDone(inst[i])
    /\ \E e \in {"Canceled", "DeadlineExceeded"} :
         inst' = [inst EXCEPT ![i] = DrvCtxDone(@, e)]
    /\ UNCHANGED service
    /\ PairFrame

ServiceChange(c) ==
    /\ \E i \in Instances : inst[i].clusterId = c /\ inst[i].pc # "returned"
    /\ \E r \in PairRemoteStates \ {service[c]} :
         service' = [service EXCEPT ![c] = r]
    /\ UNCHANGED inst
    /\ PairFrame

NextPair ==
    \/ \E i \in Instances : PairTrigger(i)
    \/ \E i \in Instances : PairIssuePoll(i)
    \/ \E i \in Instances : PairPollReturns(i)
    \/ \E i \in Instances : PairWakeUp(i)
    \/ \E i \in Instances : PairObserveCancel(i)
    \/ \E i \in Instances : PairCtxDone(i)
    \/ \E c \in ClusterIds : ServiceChange(c)

SpecPair == InitPair /\ [][NextPair]_vars

\* C14: two operations for different clusters running side by side are
\* independent: whatever one does (poll, sleep, fail, be cancelled) leaves the
\* other's poll count, failure counter, state and outcome untouched, and every
\* step either takes is a step it could take running alone against its own
\* cluster.
C14_Independent ==
    [][\A i \in Instances :
         inst'[i] # inst[i]
           => /\ \A j \in Instances \ {i} : inst'[j] = inst[j]
              /\ inst'[i] \in InstSteps(inst[i], service[inst[i].clusterId],
                                        MaxPairPolls)]_vars

C14_Witness ==
    /\ service["cluster1"] # service["cluster2"]
    /\ inst[1].state = "Failed"
    /\ inst[1].result.kind = "TimeoutExceededError"
    /\ inst[1].failures = 2
    /\ inst[2].state = "Cancelled"
    /\ inst[2].failures = 0
    /\ inst[2].polls = 2

\* ------------------------------------------------- The two polarities
\* A disable operation and the enable operation of the same kind driven by the
\* same events, the enable one against a service whose flag reads the
\* opposite at every moment.
Negate(r) ==
    [r EXCEPT !.body = IF @ = "true" THEN "false"
                       ELSE IF @ = "false" THEN "true" ELSE @]

Mirrored(r) == [c \in ClusterIds |-> IF c = "cluster1" THEN r ELSE Negate(r)]

PolarityPairs ==
    { <<"DisableMonitoring", "EnableMonitoring">>,
      <<"DisableAzureMonitor", "EnableAzureMonitor">> }

InitPolarity ==
    /\ SingleIdle
    /\ upd = UpdIdle
    /\ df = DfIdle
    /\ \E k \in 0..MaxAllowance, types \in PolarityPairs :
         inst = [i \in Instances |->
                   NewInstance(PairClusterIds[i], types[i], k)]
    /\ \E r \in RemoteStates : service = Mirrored(r)

LockTrigger ==
    /\ \E ok \in BOOLEAN :
         /\ CanTrigger(inst[1], ok)
         /\ inst' = [i \in Instances |-> DrvTrigger(inst[i], ok)]
    /\ UNCHANGED service
    /\ PairFrame

LockIssuePoll ==
    /\ CanIssuePoll(inst[1], MaxPolls)
    /\ inst' = [i \in Instances |-> DrvIssuePoll(inst[i])]
    /\ UNCHANGED service
    /\ PairFrame

LockPollReturns ==
    /\ CanPollReturn(inst[1])
    /\ inst' = [i \in Instances |->
                  DrvPollReturns(inst[i], service[inst[i].poller.clusterId])]
    /\ UNCHANGED service
    /\ PairFrame

LockWakeUp ==
    /\ CanWakeUp(inst[1])
    /\ inst' = [i \in Instances |-> DrvWakeUp(inst[i])]
    /\ UNCHANGED service
    /\ PairFrame

LockObserveCancel ==
    /\ CanObserveCancel(inst[1])
    /\ inst' = [i \in Instances |-> DrvObserveCancel(inst[i])]
    /\ UNCHANGED service
    /\ PairFrame

LockCtxDone ==
    /\ CanCtxDone(inst[1])
    /\ \E e \in {"Canceled", "DeadlineExceeded"} :
         inst' = [i \in Instances |-> DrvCtxDone(inst[i], e)]
    /\ UNCHANGED service
    /\ PairFrame

LockServiceChange ==
    /\ inst[1].pc # "returned"
    /\ \E r \in RemoteStates \ {service["cluster1"]} : service' = Mirrored(r)
    /\ UNCHANGED inst
    /\ PairFrame

NextPolarity ==
    \/ LockTrigger
    \/ LockIssuePoll
    \/ LockPollReturns
    \/ LockWakeUp
    \/ LockObserveCancel
    \/ LockCtxDone
    \/ LockServiceChange

SpecPolarity == InitPolarity /\ [][NextPolarity]_vars

DriverView(d) ==
    [pc       |-> d.pc,
     state    |-> d.state,
     polls    |-> d.polls,
     failures |-> d.failures,
     ctxErr   |-> d.ctxErr,
     kind     |-> d.result.kind,
     detail   |-> d.result.wraps.detail,
     opResult |-> d.opResult]

\* C12: the driver's behaviour depends on the status classification only, not
\* on the polarity: a "done when the flag is false" operation over a sequence
\* of flag readings and a "done when the flag is true" operation over the
\* negated sequence go through the same driver states, issue the same number
\* of polls and end with the same outcome.
C12_PolarityIrrelevant ==
    /\ DriverView(inst[1]) = DriverView(inst[2])
    /\ inst[1].pollType \in PollerTypes
    /\ inst[2].pollType \in EnablePollerTypes
    /\ service["cluster2"] = Negate(service["cluster1"])

C12_Witness ==
    /\ inst[1].pollType = "DisableMonitoring"
    /\ inst[2].pollType = "EnableMonitoring"
    /\ inst[1].polls = 3
    /\ inst[2].polls = 3
    /\ inst[1].state = "Succeeded"
    /\ inst[2].state = "Succeeded"
    /\ service["cluster1"] = [failing |-> FALSE, body |-> "false"]
    /\ service["cluster2"] = [failing |-> FALSE, body |-> "true"]

\* ------------------------------------------------- hdinsightClusterUpdate
\* The update function from the monitor change on: monitor, extension,
\* gateway, then readFunc. The enable / disable operation of a step runs as a
\* value (op) with the steps of InstSteps, under the one context of the update.
NoOp == [pc |-> "none"]
NoUpdateResult == [kind |-> "pending", step |-> "none"]

OperationOf(step, isSet) ==
    IF step = "monitor"
      THEN IF isSet THEN "EnableMonitoring" ELSE "DisableMonitoring"
      ELSE IF isSet THEN "EnableAzureMonitor" ELSE "DisableAzureMonitor"

InitUpdate ==
    /\ SingleIdle
    /\ inst = NoInstances
    /\ df = DfIdle
    /\ service \in [{OperationClusterId} -> PairRemoteStates]
    /\ \E change \in [{"monitor", "extension", "gateway"} -> BOOLEAN],
          isSet \in [{"monitor", "extension"} -> BOOLEAN],
          k \in 0..MaxAllowance :
         upd = [pc        |-> "monitor",
                change    |-> change,
                isSet     |-> isSet,
                allowance |-> k,
                ctxErr    |-> "none",
                op        |-> NoOp,
                steps     |-> <<>>,
                result    |-> NoUpdateResult]

UpdateFrame == UNCHANGED <<singleVars, inst, df>>

NextStepOf(step) == IF step = "monitor" THEN "extension" ELSE "gateway"

\* if d.HasChange("monitor") { .. enableHDInsightMonitoring(..) / disable.. }
\* if d.HasChange("extension") { .. enableHDInsightAzureMonitor(..) / disable.. }
\* up to the call of the operation.
UpdBeginOperation ==
    /\ upd.pc \in {"monitor", "extension"}
    /\ IF upd.change[upd.pc]
         THEN upd' = [upd EXCEPT
                !.pc = "in_" \o upd.pc,
                !.steps = Append(@, upd.pc),
                !.op = [NewInstance(OperationClusterId,
                                    OperationOf(upd.pc, upd.isSet[upd.pc]),
                                    upd.allowance)
                          EXCEPT !.ctxErr = upd.ctxErr]]
         ELSE upd' = [upd EXCEPT !.pc = NextStepOf(upd.pc)]
    /\ UNCHANGED service
    /\ UpdateFrame

\* The operation called by the update takes a step of its own.
UpdOperationStep ==
    /\ upd.pc \in {"in_monitor", "in_extension"}
    /\ upd.op.pc # "returned"
    /\ \E d \in InstSteps(upd.op, service[upd.op.poller.clusterId],
                          MaxPairPolls) :
         upd' = [upd EXCEPT !.op = d, !.ctxErr = d.ctxErr]
    /\ UNCHANGED service
    /\ UpdateFrame

\* The update carries on after an operation whatever it returned.
OnOperationResultContinues(u, step, opRes) ==
    [u EXCEPT !.pc = NextStepOf(step)]

\* if err := ..HDInsightMonitoring(..); err != nil { return err }
OnOperationResult(u, step, opRes) ==
    IF opRes # "nil"
      THEN [u EXCEPT !.pc = "returned",
                     !.result = [kind |-> opRes, step |-> step]]
      ELSE [u EXCEPT !.pc = NextStepOf(step)]

UpdOperationReturns ==
    /\ upd.pc \in {"in_monitor", "in_extension"}
    /\ upd.op.pc = "returned"
    /\ upd' = OnOperationResult(upd,
                                IF upd.pc = "in_monitor" THEN "monitor"
                                                         ELSE "extension",
                                upd.op.opResult)
    /\ UNCHANGED service
    /\ UpdateFrame

\* if d.HasChange("gateway") { client.UpdateGatewaySettings(..);
\* future.WaitForCompletionRef(..) }
UpdGateway ==
    /\ upd.pc = "gateway"
    /\ IF upd.change["gateway"]
         THEN \E ok \in BOOLEAN :
                /\ upd.ctxErr # "none" => ~ok
                /\ upd' = [upd EXCEPT
                     !.steps = Append(@, "gateway"),
                     !.pc = IF ok THEN "read" ELSE "returned",
                     !.result = IF ok THEN @
                                ELSE [kind |-> "GatewayError",
                                      step |-> "gateway"]]
         ELSE upd' = [upd EXCEPT !.pc = "read"]
    /\ UNCHANGED service
    /\ UpdateFrame

\* return readFunc(d, meta)
UpdRead ==
    /\ upd.pc = "read"
    /\ \E ok \in BOOLEAN :
         upd' = [upd EXCEPT
              !.steps = Append(@, "read"),
              !.pc = "returned",
              !.result = IF ok THEN [kind |-> "nil", step |-> "read"]
                               ELSE [kind |-> "ReadError", step |-> "read"]]
    /\ UNCHANGED service
    /\ UpdateFrame

UpdServiceChange ==
    /\ upd.pc \in {"in_monitor", "in_extension"}
    /\ upd.op.pc # "returned"
    /\ \E r \in PairRemoteStates \ {service[OperationClusterId]} :
         service' = [service EXCEPT ![OperationClusterId] = r]
    /\ UNCHANGED upd
    /\ UpdateFrame

NextUpdate ==
    \/ UpdBeginOperation
    \/ UpdOperationStep
    \/ UpdOperationReturns
    \/ UpdGateway
    \/ UpdRead
    \/ UpdServiceChange

SpecUpdate == InitUpdate /\ [][NextUpdate]_vars

\* PollUntilDone of the operation the update called has returned an error.
PollerFailed(u) ==
    /\ u.op # NoOp
    /\ u.op.pc = "returned"
    /\ u.op.result # Pending
    /\ u.op.result # ReturnedNil

LaterSteps(step) ==
    IF step = "monitor" THEN {"extension", "gateway", "read"}
                        ELSE {"gateway", "read"}

StepOfOperation(u) ==
    IF u.op.pollType \in {"EnableMonitoring", "DisableMonitoring"}
      THEN "monitor" ELSE "extension"

Range(f) == {f[i] : i \in DOMAIN f}

Fairness ==
    /\ WF_vars(Trigger)
    /\ WF_vars(IssuePoll)
    /\ WF_vars(PollReturns)
    /\ WF_vars(WakeUp)
    /\ WF_vars(ObserveCancel)

\* One poller type is followed: the two differ in the text of their errors
\* only, which the driver does not read.
InitFair == Init /\ pollType = "DisableAzureMonitor"

FairSpec == InitFair /\ [][Next]_vars /\ Fairness

\* The model's bound on polls is used up: the driver would poll again.
PollsExhausted == pc = "ready" /\ polls = MaxPolls /\ state = "Polling"

FlagFalse == [failing |-> FALSE, body |-> "false"]
FlagTrue == [failing |-> FALSE, body |-> "true"]

Returned == pc = "returned"

\* A context that has ended is followed by the return of the operation.
CancelLeadsToReturn == (ctxErr # "none") ~> Returned

\* If from some moment on the flag reads false, PollUntilDone returns.
FalseLeadsToReturn ==
    /\ <>[](remote = FlagFalse) => <>(Returned \/ PollsExhausted)
    /\ (pc = "inflight" /\ remote = FlagFalse)
         ~> (Returned \/ remote # FlagFalse)

\* If the query keeps failing, the allowance runs out and PollUntilDone
\* returns.
FailuresLeadToReturn ==
    /\ <>[](remote.failing) => <>(Returned \/ PollsExhausted)
    /\ (pc = "inflight" /\ remote.failing /\ failures = allowance)
         ~> (Returned \/ ~remote.failing)

\* While the flag reads true and the context lives, the driver goes on
\* polling: it uses up every poll the model allows and has not returned.
TrueForeverPollsForever ==
    [](remote = FlagTrue /\ ctxErr = "none" /\ opResult # "TriggerError")
       => <>[]PollsExhausted

\* C16: PollUntilDone on a disable poller returns in every fair execution in
\* which the flag eventually reads false, or the query eventually fails more
\* often in a row than allowed, or the context is eventually cancelled or
\* passes its deadline; if the flag reads true for ever and the context is
\* never cancelled it polls for ever.
C16_Terminates ==
    /\ CancelLeadsToReturn
    /\ FalseLeadsToReturn
    /\ FailuresLeadToReturn
    /\ TrueForeverPollsForever

C16_Witness ==
    /\ Returned
    /\ state = "Succeeded"
    /\ polls = MaxPolls
    /\ remote = FlagFalse
    /\ ctxErr = "none"
    /\ \A i \in 1..(MaxPolls - 1) : ReadsTrue(hist[i])

\* ------------------------ resourceDataFactoryLinkedServiceTableStorageCreateUpdate
\* The linked service's id as the service reports it.
LinkedServiceId == "linkedServiceId"
EmptyId == ""

\* Replies of client.Get: the error (none, not found, another failure) and the
\* ID of the body. A linked service that exists is reported with its ID, or,
\* from a service that answers badly, without one or with an empty one; one
\* that does not exist is reported as not found.
GetReplies(exists) ==
    {[err |-> "other", id |-> Nil]}
    \cup (IF exists
            THEN {[err |-> "none", id |-> i] : i \in {LinkedServiceId, EmptyId, Nil}}
            ELSE {[err |-> "notFound", id |-> Nil]})

NoReply == [err |-> "unasked", id |-> Nil]

\* The replies under the context of the call: once it has ended every request
\* fails.
GetRepliesCtx(exists, ctx) ==
    IF ctx = "none" THEN GetReplies(exists)
                    ELSE {[err |-> "other", id |-> Nil]}

InitDF ==
    /\ SingleIdle
    /\ upd = UpdIdle
    /\ inst = NoInstances
    /\ service = NoService
    /\ \E isNew \in BOOLEAN, exists \in BOOLEAN :
         df = [pc       |-> "start",
               isNew    |-> isNew,
               exists   |-> exists,
               existed  |-> exists,
               ctxErr   |-> "none",
               check    |-> NoReply,
               calls    |-> <<>>,
               id       |-> Nil,
               result   |-> "pending"]

DfFrame == UNCHANGED <<singleVars, upd, inst, service>>

\* The existence check with the found-ID test left out.
CheckOutcomeIgnoresId(reply) ==
    IF reply.err = "other" THEN "CheckError" ELSE "proceed"

\* if err != nil { if !utils.ResponseWasNotFound(existing.Response) { return ..} }
\* if existing.ID != nil && *existing.ID != "" { return tf.ImportAsExistsError(..) }
CheckOutcome(reply) ==
    IF reply.err = "other" THEN "CheckError"
    ELSE IF reply.id # Nil /\ reply.id # EmptyId THEN "ImportAsExistsError"
    ELSE "proceed"

\* if d.IsNewResource() { existing, err := client.Get(..) .. }
DfExistenceCheck ==
    /\ df.pc = "start"
    /\ df.isNew
    /\ \E reply \in GetRepliesCtx(df.exists, df.ctxErr) :
         df' = [df EXCEPT
                  !.calls = Append(@, "Get"),
                  !.check = reply,
                  !.existed = df.exists,
                  !.pc = IF CheckOutcome(reply) = "proceed" THEN "create"
                                                            ELSE "returned",
                  !.result = IF CheckOutcome(reply) = "proceed" THEN @
                             ELSE CheckOutcome(reply)]
    /\ DfFrame

\* client.CreateOrUpdate(ctx, resourceGroup, dataFactoryName, name,
\* linkedService, ""): creates the linked service or replaces the one there.
DfCreateOrUpdate ==
    /\ \/ df.pc = "create"
       \/ df.pc = "start" /\ ~df.isNew
    /\ \E ok \in {b \in BOOLEAN : df.ctxErr # "none" => ~b} :
         df' = [df EXCEPT
                  !.calls = Append(@, "CreateOrUpdate"),
                  !.exists = IF ok THEN TRUE ELSE @,
                  !.pc = IF ok THEN "get" ELSE "returned",
                  !.result = IF ok THEN @ ELSE "CreateOrUpdateError"]
    /\ DfFrame

\* resp, err := client.Get(..); if err != nil {..}; if resp.ID == nil {..};
\* d.SetId(*resp.ID)
DfGet ==
    /\ df.pc = "get"
    /\ \E reply \in GetRepliesCtx(df.exists, df.ctxErr) :
         df' = [df EXCEPT
                  !.calls = Append(@, "Get"),
                  !.id = IF reply.err = "none" /\ reply.id # Nil
                           THEN reply.id ELSE @,
                  !.pc = IF reply.err = "none" /\ reply.id # Nil
                           THEN "read" ELSE "returned",
                  !.result = IF reply.err # "none" THEN "RetrieveError"
                             ELSE IF reply.id = Nil THEN "CannotReadError"
                             ELSE @]
    /\ DfFrame

\* return resourceDataFactoryLinkedServiceTableStorageRead(d, meta)
DfRead ==
    /\ df.pc = "read"
    /\ \E reply \in GetRepliesCtx(df.exists, df.ctxErr) :
         df' = [df EXCEPT
                  !.calls = IF df.id = EmptyId THEN @ ELSE Append(@, "Get"),
                  !.id = IF df.id # EmptyId /\ reply.err = "notFound"
                           THEN EmptyId ELSE @,
                  !.pc = "returned",
                  !.result = IF df.id = EmptyId THEN "ReadError"
                             ELSE IF reply.err = "notFound" THEN "nil"
                             ELSE IF reply.err = "other" THEN "ReadError"
                             ELSE "nil"]
    /\ DfFrame

\* Somebody else creates or deletes a linked service of that name.
DfOtherParty ==
    /\ df.pc # "returned"
    /\ df' = [df EXCEPT !.exists = ~@]
    /\ DfFrame

\* ctx, cancel := timeouts.ForCreateUpdate(..): the context is cancelled or
\* passes its deadline.
DfCtxDone ==
    /\ df.pc # "returned"
    /\ df.ctxErr = "none"
    /\ \E e \in {"Canceled", "DeadlineExceeded"} :
         df' = [df EXCEPT !.ctxErr = e]
    /\ DfFrame

NextDF ==
    \/ DfExistenceCheck
    \/ DfCreateOrUpdate
    \/ DfGet
    \/ DfRead
    \/ DfOtherParty
    \/ DfCtxDone

SpecDF == InitDF /\ [][NextDF]_vars

Issued(call) == \E i \in 1..Len(df.calls) : df.calls[i] = call

C17_WitnessCreated ==
    /\ df.isNew
    /\ df.check.err = "notFound"
    /\ df.calls = <<"Get", "CreateOrUpdate", "Get", "Get">>
    /\ df.id = LinkedServiceId
    /\ df.result = "nil"

====
